---------------------------- MODULE Spec2Model ----------------------------
(***************************************************************************)
(* Scroll-driven card morphing of ClearSeas-Enhanced.                      *)
(*                                                                         *)
(*   MorphingTransitionSystem      (src/unnamed/part_000)                  *)
(*   ClearSeasEnhancedApplication  (src/unnamed/part_001, morphing build)  *)
(*   ClearSeasEnhancedApplication  (src/unnamed/part_002, detailed build)  *)
(*                                                                         *)
(* Numbers are exact rationals <<numerator, denominator>> in lowest terms, *)
(* so every formula of the source is evaluated as written, over the reals. *)
(* Two values the source takes from transcendental functions are kept in   *)
(* closed form: a card's scatter offset (cos, sin of its angle, times the  *)
(* distance) is the pair [turn, distance], and morphFactor = sin(ease*PI)  *)
(* is the record [sinPiOf |-> ease].                                       *)
(***************************************************************************)
EXTENDS Integers, Sequences, FiniteSets, TLC

\* Bounds of the model.
MaxCards == 2        \* cards per section in the page
MaxInitCalls == 3    \* initialize() calls in one behaviour
MaxRotSteps == 1     \* cap on the accumulated rot4d increments, in full-ease steps

----------------------------------------------------------------------------
\* Exact rational arithmetic.

RECURSIVE GCD(_, _)
GCD(a, b) == IF b = 0 THEN a ELSE GCD(b, a % b)

Abs(n) == IF n < 0 THEN -n ELSE n

Rat(n, d) ==
    LET g == GCD(Abs(n), Abs(d))
        s == IF d < 0 THEN -1 ELSE 1
    IN  <<(s * n) \div g, (s * d) \div g>>

Num(r) == r[1]
Den(r) == r[2]
Whole(n) == <<n, 1>>

RMul(a, b) ==
    LET g1 == GCD(Abs(Num(a)), Den(b))
        g2 == GCD(Abs(Num(b)), Den(a))
    IN  Rat((Num(a) \div g1) * (Num(b) \div g2), (Den(a) \div g2) * (Den(b) \div g1))

RAdd(a, b) ==
    LET g == GCD(Den(a), Den(b))
    IN  Rat(Num(a) * (Den(b) \div g) + Num(b) * (Den(a) \div g), (Den(a) \div g) * Den(b))

RNeg(a) == <<-Num(a), Den(a)>>
RSub(a, b) == RAdd(a, RNeg(b))
RDiv(a, b) == RMul(a, Rat(Den(b), Num(b)))

\* Denominators are positive, so the order is that of the cross products.
RLt(a, b) == Num(a) * Den(b) < Num(b) * Den(a)
RLe(a, b) == Num(a) * Den(b) <= Num(b) * Den(a)
RMax(a, b) == IF RLt(a, b) THEN b ELSE a
RMin(a, b) == IF RLt(b, a) THEN b ELSE a
RBetween(x, a, b) == RLe(RMin(a, b), x) /\ RLe(x, RMax(a, b))

Zero == Whole(0)
One == Whole(1)
Half == Rat(1, 2)

----------------------------------------------------------------------------
\* Easing and interpolation.

Cube(t) == RMul(t, RMul(t, t))

\* t < 0.5 ? 4 * t * t * t : 1 - Math.pow(-2 * t + 2, 3) / 2
easeInOutCubic(t) ==
    IF RLt(t, Half)
    THEN RMul(Whole(4), Cube(t))
    ELSE RSub(One, RDiv(Cube(RAdd(RMul(Whole(-2), t), Whole(2))), Whole(2)))

c1 == Rat(170158, 100000)
c3 == RAdd(c1, One)

\* 1 + c3 * Math.pow(t - 1, 3) + c1 * Math.pow(t - 1, 2)
easeOutBack(t) ==
    LET u == RSub(t, One)
    IN  RAdd(RAdd(One, RMul(c3, Cube(u))), RMul(c1, RMul(u, u)))

\* a + b * t
lerpNoDelta(a, b, t) == RAdd(a, RMul(b, t))

\* a + (b - a) * t
lerp(a, b, t) == RAdd(a, RMul(RSub(b, a), t))

\* Math.max(0, Math.min(1, x))
Clamp01(x) == RMax(Zero, RMin(One, x))

----------------------------------------------------------------------------
\* The page and the section presets.

SectionIds == <<"hero", "capabilities", "research", "contact">>
SectionSet == {SectionIds[k] : k \in 1..Len(SectionIds)}

\* The configuration registerSections passes for each section, in call order.
SectionConfig(id) ==
    CASE id = "hero" ->
           [cardSelector |-> ".signal-card", layout |-> "grid",
            visualizerState |-> [geometry |-> Whole(2), hue |-> Whole(180),
                                 intensity |-> Rat(6, 10), chaos |-> Rat(1, 10),
                                 speed |-> Rat(8, 10), gridDensity |-> Whole(20)]]
      [] id = "capabilities" ->
           [cardSelector |-> ".capability-card", layout |-> "grid",
            visualizerState |-> [geometry |-> Whole(7), hue |-> Whole(280),
                                 intensity |-> Rat(7, 10), chaos |-> Rat(2, 10),
                                 speed |-> Whole(1), gridDensity |-> Whole(30)]]
      [] id = "research" ->
           [cardSelector |-> ".card", layout |-> "stack",
            visualizerState |-> [geometry |-> Whole(5), hue |-> Whole(200),
                                 intensity |-> Rat(9, 10), chaos |-> Rat(4, 10),
                                 speed |-> Rat(13, 10), gridDensity |-> Whole(45)]]
      [] id = "contact" ->
           [cardSelector |-> ".contact-card", layout |-> "flex",
            visualizerState |-> [geometry |-> Whole(0), hue |-> Whole(240),
                                 intensity |-> Rat(5, 10), chaos |-> Rat(5, 100),
                                 speed |-> Rat(6, 10), gridDensity |-> Whole(12)]]

\* A page: which section elements exist, how many cards each section's selector
\* matches, and how many text elements setupTextScrollOff's selector matches.
Pages ==
    {pg \in [sections : SUBSET SectionSet,
             cards : [SectionSet -> 0..MaxCards],
             textElements : 0..1] :
        \A s \in SectionSet : s \notin pg.sections => pg.cards[s] = 0}

\* The cards of a section, as <<section id, index>>.
CardsOf(pg, s) == {<<s, i>> : i \in 0..(pg.cards[s] - 1)}
AllCards(pg) == UNION {CardsOf(pg, s) : s \in SectionSet}

\* Inline style of an element gsap has not touched.
IdentityStyle ==
    [scatter |-> [turn |-> Zero, distance |-> Zero], rotation |-> Zero,
     scale |-> One, opacity |-> One, blur |-> Zero]
IdentityContent == [opacity |-> One, y |-> Zero]

\* Parameters of a freshly constructed visualizer.
FreshParams ==
    [geometry |-> Zero, hue |-> Zero, intensity |-> Zero, chaos |-> Zero,
     gridDensity |-> Zero, morphFactor |-> [sinPiOf |-> Zero],
     rot4dXW |-> Zero, rot4dYW |-> Zero]

----------------------------------------------------------------------------
\* MorphingTransitionSystem: registration and trigger creation.

\* sectionConfigs is the Map of the source, kept as the sequence of its entries
\* in insertion order. Map.set on a key already present replaces the entry in
\* place; on a new key it appends.
HasKey(configs, id) == \E k \in 1..Len(configs) : configs[k].id = id

MapSet(configs, entry) ==
    IF HasKey(configs, entry.id)
    THEN [k \in 1..Len(configs) |->
            IF configs[k].id = entry.id THEN entry ELSE configs[k]]
    ELSE Append(configs, entry)

\* registerSection without the check that the section element exists.
registerSectionUnchecked(configs, pg, sectionId, config) ==
    MapSet(configs,
           [id |-> sectionId,
            cards |-> CardsOf(pg, sectionId),
            layout |-> config.layout,
            cardCount |-> pg.cards[sectionId],
            visualizerState |-> config.visualizerState,
            cardSelector |-> config.cardSelector])

registerSection(configs, pg, sectionId, config) ==
    IF sectionId \notin pg.sections
    THEN configs
    ELSE MapSet(configs,
                [id |-> sectionId,
                 cards |-> CardsOf(pg, sectionId),
                 layout |-> config.layout,
                 cardCount |-> pg.cards[sectionId],
                 visualizerState |-> config.visualizerState,
                 cardSelector |-> config.cardSelector])

\* registerSections of the application: the four registerSection calls in order.
RECURSIVE registerFrom(_, _, _)
registerFrom(configs, pg, k) ==
    IF k > Len(SectionIds)
    THEN configs
    ELSE registerFrom(registerSection(configs, pg, SectionIds[k],
                                      SectionConfig(SectionIds[k])), pg, k + 1)

registerSections(pg) == registerFrom(<<>>, pg, 1)

\* One gsap timeline with a ScrollTrigger on the to-section; onEnter and
\* onUpdate close over the two configurations.
createMorphTransition(configs, triggers, fromSectionId, toSectionId) ==
    IF ~HasKey(configs, fromSectionId) \/ ~HasKey(configs, toSectionId)
    THEN triggers
    ELSE Append(triggers, [from |-> fromSectionId, to |-> toSectionId,
                           trigger |-> toSectionId])

RECURSIVE setupFrom(_, _, _)
setupFrom(configs, triggers, i) ==
    IF i > Len(configs) - 1
    THEN triggers
    ELSE setupFrom(configs,
                   createMorphTransition(configs, triggers,
                                         configs[i].id, configs[i + 1].id),
                   i + 1)

\* setupMorphingTransitions. With window.gsap undefined the first
\* this.gsap.timeline call throws a TypeError before any trigger exists.
setupMorphingTransitions(configs, triggers, gsapLoaded) ==
    IF Len(configs) >= 2 /\ ~gsapLoaded
    THEN [threw |-> TRUE, triggers |-> triggers]
    ELSE [threw |-> FALSE, triggers |-> setupFrom(configs, triggers, 1)]

\* setupTextScrollOff: one tween per matched text element; this.gsap.to throws
\* with window.gsap undefined as soon as there is an element to animate.
setupTextScrollOff(pg, tweens, gsapLoaded) ==
    IF pg.textElements > 0 /\ ~gsapLoaded
    THEN [threw |-> TRUE, tweens |-> tweens]
    ELSE [threw |-> FALSE, tweens |-> tweens + pg.textElements]

ConfigOf(configs, id) == configs[CHOOSE k \in 1..Len(configs) : configs[k].id = id]

----------------------------------------------------------------------------
\* MorphingTransitionSystem: the poses.

\* self.progress as ScrollTrigger reports it, sampled on tenths: the samples
\* hold both ends, every phase boundary (0.3, 0.4, 0.6, 0.7) and the midpoint.
ProgressGrid == {Rat(k, 10) : k \in 0..10}

\* Values Math.random() may return.
RandomValues == {Zero, Rat(3, 4)}

CardIndexes == 0..(MaxCards - 1)

\* The three phase windows of onTransitionProgress and the progress each phase
\* is called with.
\* Phase 1 with its upper end included.
inDisassembleInclusive(progress) == RLe(progress, Rat(4, 10))

inDisassemble(progress) == RLt(progress, Rat(4, 10))
inMorph(progress) == RLe(Rat(3, 10), progress) /\ RLe(progress, Rat(7, 10))
inAssemble(progress) == RLe(Rat(6, 10), progress)

disassembleProgress(progress) == RDiv(progress, Rat(4, 10))
morphProgress(progress) == RDiv(RSub(progress, Rat(3, 10)), Rat(4, 10))
assembleProgress(progress) == RDiv(RSub(progress, Rat(6, 10)), Rat(4, 10))

\* Which phases one onTransitionProgress call runs, and with which progress.
NotRun == [ran |-> FALSE, arg |-> Zero]
Ran(x) == [ran |-> TRUE, arg |-> x]

phases(progress) ==
    [disassemble |-> IF inDisassemble(progress)
                     THEN Ran(disassembleProgress(progress)) ELSE NotRun,
     morph |-> IF inMorph(progress)
               THEN Ran(morphProgress(progress)) ELSE NotRun,
     assemble |-> IF inAssemble(progress)
                  THEN Ran(assembleProgress(progress)) ELSE NotRun]

\* phases on the grid, evaluated once.
phasesOn == [p \in ProgressGrid |-> phases(p)]

DisassembleArgs == {disassembleProgress(p) : p \in {q \in ProgressGrid : inDisassemble(q)}}
MorphArgs == {morphProgress(p) : p \in {q \in ProgressGrid : inMorph(q)}}
AssembleArgs == {assembleProgress(p) : p \in {q \in ProgressGrid : inAssemble(q)}}

\* 'blur(8px)' and the like are kept as the number of pixels.
\* onTransitionStart: gsap.set(card, {opacity: 0, scale: 0.8, filter: 'blur(8px)'})
startStyle(style) ==
    [style EXCEPT !.opacity = Zero, !.scale = Rat(8, 10), !.blur = Whole(8)]

\* x = cos(angle) * distance, y = sin(angle) * distance with angle = turn * 2 PI.
\* A zero distance is the origin whatever the angle.
Scatter(turn, distance) ==
    IF distance = Zero THEN [turn |-> Zero, distance |-> Zero]
    ELSE [turn |-> turn, distance |-> distance]

\* The body of disassembleCards' forEach for card i of n; random is the value
\* Math.random() returned.
disassembleStyle(i, n, progress, random) ==
    LET delay == RMul(Whole(i), Rat(1, 10))
        adjustedProgress == Clamp01(RSub(progress, delay))
        distance == RMul(adjustedProgress, Whole(200))
    IN  [scatter |-> Scatter(Rat(i, n), distance),
         rotation |-> RMul(RMul(adjustedProgress, RSub(random, Half)), Whole(45)),
         scale |-> RSub(One, RMul(adjustedProgress, Half)),
         opacity |-> RSub(One, adjustedProgress),
         blur |-> RMul(adjustedProgress, Whole(12))]

\* disassembleStyle on the arguments the grid produces, evaluated once.
disassembleStyleOn ==
    [i \in CardIndexes, n \in 1..MaxCards, t \in DisassembleArgs, r \in RandomValues |->
        disassembleStyle(i, n, t, r)]

disassembleCards(styles, cards, progress, randoms) ==
    [c \in DOMAIN styles |->
        IF c \in cards
        THEN disassembleStyleOn[c[2], Cardinality(cards), progress, randoms[c[2]]]
        ELSE styles[c]]

assembleEased(i, progress) ==
    LET delay == RMul(Whole(i), Rat(15, 100))
        adjustedProgress == Clamp01(RSub(progress, delay))
    IN  easeOutBack(adjustedProgress)

assembleStyle(i, progress) ==
    LET easedProgress == assembleEased(i, progress)
    IN  [scatter |-> Scatter(Zero, Zero),
         rotation |-> Zero,
         scale |-> RAdd(Rat(8, 10), RMul(easedProgress, Rat(2, 10))),
         opacity |-> easedProgress,
         blur |-> RMul(RSub(One, easedProgress), Whole(8))]

\* The content of a card is written only once easedProgress > 0.5.
contentWritten(i, progress) == RLt(Half, assembleEased(i, progress))

assembleContent(i, progress) ==
    LET easedProgress == assembleEased(i, progress)
        contentProgress == RDiv(RSub(easedProgress, Half), Half)
    IN  [opacity |-> contentProgress,
         y |-> RMul(RSub(One, contentProgress), Whole(20))]

\* The assemble poses on the arguments the grid produces, evaluated once.
assembleStyleOn ==
    [i \in CardIndexes, t \in AssembleArgs |-> assembleStyle(i, t)]
contentWrittenOn ==
    [i \in CardIndexes, t \in AssembleArgs |-> contentWritten(i, t)]
assembleContentOn ==
    [i \in CardIndexes, t \in AssembleArgs |-> assembleContent(i, t)]

assembleCards(styles, cards, progress) ==
    [c \in DOMAIN styles |->
        IF c \in cards THEN assembleStyleOn[c[2], progress] ELSE styles[c]]

assembleContents(contents, cards, progress) ==
    [c \in DOMAIN contents |->
        IF c \in cards /\ contentWrittenOn[c[2], progress]
        THEN assembleContentOn[c[2], progress]
        ELSE contents[c]]

\* The six parameters morphVisualizer assigns.
morphTargets(fromState, toState, progress) ==
    LET ease == easeInOutCubic(progress)
    IN  [geometry |-> lerp(fromState.geometry, toState.geometry, ease),
         hue |-> lerp(fromState.hue, toState.hue, ease),
         intensity |-> lerp(fromState.intensity, toState.intensity, ease),
         chaos |-> lerp(fromState.chaos, toState.chaos, ease),
         gridDensity |-> lerp(fromState.gridDensity, toState.gridDensity, ease),
         morphFactor |-> [sinPiOf |-> ease]]

\* The two it increments: rot4dXW += 0.002 * ease, rot4dYW += 0.0015 * ease.
rotationStep(progress) ==
    LET ease == easeInOutCubic(progress)
    IN  [rot4dXW |-> RMul(Rat(2, 1000), ease),
         rot4dYW |-> RMul(Rat(15, 10000), ease)]

\* rotationStep on the arguments the grid produces, evaluated once.
rotationStepOn == [x \in MorphArgs |-> rotationStep(x)]

morphRotation(p, progress) ==
    [rot4dXW |-> RAdd(p.rot4dXW, rotationStepOn[progress].rot4dXW),
     rot4dYW |-> RAdd(p.rot4dYW, rotationStepOn[progress].rot4dYW)]

\* morphTargets between the presets, on the arguments the grid produces,
\* evaluated once.
morphTargetsOn ==
    [f \in SectionSet, t \in SectionSet, x \in MorphArgs |->
        morphTargets(SectionConfig(f).visualizerState,
                     SectionConfig(t).visualizerState, x)]

\* morphVisualizer interpolating from the current parameters, not the from preset.
morphVisualizerFromCurrent(p, fromId, toId, progress) ==
    LET ease == easeInOutCubic(progress)
        toState == SectionConfig(toId).visualizerState
        rotation == morphRotation(p, progress)
    IN  [geometry |-> lerp(p.geometry, toState.geometry, ease),
         hue |-> lerp(p.hue, toState.hue, ease),
         intensity |-> lerp(p.intensity, toState.intensity, ease),
         chaos |-> lerp(p.chaos, toState.chaos, ease),
         gridDensity |-> lerp(p.gridDensity, toState.gridDensity, ease),
         morphFactor |-> [sinPiOf |-> ease],
         rot4dXW |-> rotation.rot4dXW,
         rot4dYW |-> rotation.rot4dYW]

\* morphVisualizer on a visualizer that has params, between two sections.
morphVisualizer(p, fromId, toId, progress) ==
    LET targets == morphTargetsOn[fromId, toId, progress]
        rotation == morphRotation(p, progress)
    IN  [geometry |-> targets.geometry,
         hue |-> targets.hue,
         intensity |-> targets.intensity,
         chaos |-> targets.chaos,
         gridDensity |-> targets.gridDensity,
         morphFactor |-> targets.morphFactor,
         rot4dXW |-> rotation.rot4dXW,
         rot4dYW |-> rotation.rot4dYW]

----------------------------------------------------------------------------
\* MorphingTransitionSystem: the scroll callbacks, as functions of the pose.
\* A pose is [cardStyle, contentStyle, params].

\* onTransitionStart: the to-cards start hidden and scaled down.
onTransitionStart(toConfig, pose) ==
    [pose EXCEPT !.cardStyle =
        [c \in DOMAIN pose.cardStyle |->
            IF c \in toConfig.cards THEN startStyle(pose.cardStyle[c])
            ELSE pose.cardStyle[c]]]

\* onTransitionProgress: randoms[i] is what Math.random() returns for from-card i.
onTransitionProgress(fromConfig, toConfig, pose, progress, randoms) ==
    LET phase == phasesOn[progress]
        \* Phase 1 (0-0.4): disassemble "from" cards
        style1 == IF phase.disassemble.ran
                  THEN disassembleCards(pose.cardStyle, fromConfig.cards,
                                        phase.disassemble.arg, randoms)
                  ELSE pose.cardStyle
        \* Phase 2 (0.3-0.7): visualizer morphs
        params2 == IF phase.morph.ran
                   THEN morphVisualizer(pose.params, fromConfig.id, toConfig.id,
                                        phase.morph.arg)
                   ELSE pose.params
        \* Phase 3 (0.6-1.0): assemble "to" cards
        style3 == IF phase.assemble.ran
                  THEN assembleCards(style1, toConfig.cards, phase.assemble.arg)
                  ELSE style1
        content3 == IF phase.assemble.ran
                    THEN assembleContents(pose.contentStyle, toConfig.cards,
                                          phase.assemble.arg)
                    ELSE pose.contentStyle
    IN  [cardStyle |-> style3, contentStyle |-> content3, params |-> params2]

----------------------------------------------------------------------------
\* State.

VARIABLES
    page,                         \* the document (fixed for a behaviour)
    build,                        \* "morphing" (part_001) or "detailed" (part_002)
    isInitialized,                \* this.isInitialized
    quantumVisualizer,            \* "null", or the visualizer: "noGL" / "withGL"
    morphingSystem,               \* "null" or "created" (part_001)
    detailedScrollChoreographer,  \* "null" or "created" (part_002)
    sectionConfigs,               \* sectionConfigs of the current morphing system
    scrollTriggers,               \* the ScrollTriggers createMorphTransition made
    textTweens,                   \* tweens made by setupTextScrollOff
    renderLoops,                  \* requestAnimationFrame loops started
    readyEvents,                  \* 'clearSeasEnhancedReady' events dispatched
    initCalls,                    \* initialize() calls so far
    lastInit,                     \* what the last initialize() call logged
    params,                       \* quantumVisualizer.params
    cardStyle,                    \* inline style of every card
    contentStyle,                 \* inline style of every card's content
    lastCall,                     \* the last scroll callback and the phases it ran
    sweep                         \* "unstarted": no onTransitionStart yet;
                                  \* "forward": since the last onTransitionStart,
                                  \* only non-decreasing progress; else "broken"

appVars == <<isInitialized, quantumVisualizer, morphingSystem,
             detailedScrollChoreographer, sectionConfigs, scrollTriggers,
             textTweens, renderLoops, readyEvents, initCalls, lastInit>>
poseVars == <<params, cardStyle, contentStyle>>
vars == <<page, build, appVars, poseVars, lastCall, sweep>>

Pose == [cardStyle |-> cardStyle, contentStyle |-> contentStyle, params |-> params]

FreshPose(pg) ==
    [cardStyle |-> [c \in AllCards(pg) |-> IdentityStyle],
     contentStyle |-> [c \in AllCards(pg) |-> IdentityContent],
     params |-> FreshParams]

NoCall == [kind |-> "none", trigger |-> 0, progress |-> Zero,
           disassemble |-> NotRun, morph |-> NotRun, assemble |-> NotRun]

\* The state the constructor leaves, on a page.
Constructed(pg, b) ==
    /\ page = pg
    /\ build = b
    /\ isInitialized = FALSE
    /\ quantumVisualizer = "null"
    /\ morphingSystem = "null"
    /\ detailedScrollChoreographer = "null"
    /\ sectionConfigs = <<>>
    /\ scrollTriggers = <<>>
    /\ textTweens = 0
    /\ renderLoops = 0
    /\ readyEvents = 0
    /\ initCalls = 0
    /\ lastInit = "none"
    /\ params = FreshPose(pg).params
    /\ cardStyle = FreshPose(pg).cardStyle
    /\ contentStyle = FreshPose(pg).contentStyle
    /\ lastCall = NoCall
    /\ sweep = "unstarted"

Init == \E pg \in Pages, b \in {"morphing", "detailed"} : Constructed(pg, b)

----------------------------------------------------------------------------
\* ClearSeasEnhancedApplication.initialize.

\* initialize() without its early return.
skipNever == FALSE

\* initialize() without the WebGL check.
contextMissingNever(visualizer) == FALSE

\* if (this.isInitialized) { warn('Already initialized'); return; }
skipInitialize == isInitialized

\* if (!this.quantumVisualizer.gl) throw new Error('Failed to create WebGL context')
contextMissing(visualizer) == visualizer = "noGL"

AlreadyInitialized ==
    /\ skipInitialize
    /\ initCalls' = initCalls + 1
    /\ lastInit' = "alreadyInitialized"
    /\ UNCHANGED <<isInitialized, quantumVisualizer, morphingSystem,
                   detailedScrollChoreographer, sectionConfigs, scrollTriggers,
                   textTweens, renderLoops, readyEvents, params>>

\* part_001. gl: the new visualizer has a WebGL context; gsapLoaded: window.gsap
\* is defined. Whatever is thrown inside the try block is caught and logged.
initializeMorphingBody(gl, gsapLoaded) ==
    LET visualizer == IF gl THEN "withGL" ELSE "noGL"
        registered == registerSections(page)
        setup == setupMorphingTransitions(registered, scrollTriggers, gsapLoaded)
        text == setupTextScrollOff(page, textTweens, gsapLoaded)
        threw == setup.threw \/ text.threw
    IN  /\ ~skipInitialize
        /\ initCalls' = initCalls + 1
        /\ quantumVisualizer' = visualizer
        /\ params' = FreshParams
        /\ UNCHANGED detailedScrollChoreographer
        /\ IF contextMissing(visualizer)
           THEN /\ lastInit' = "noWebGL"
                /\ UNCHANGED <<isInitialized, morphingSystem, sectionConfigs,
                               scrollTriggers, textTweens, renderLoops, readyEvents>>
           ELSE /\ renderLoops' = renderLoops + 1
                /\ morphingSystem' = "created"
                /\ sectionConfigs' = registered
                /\ scrollTriggers' = setup.triggers
                /\ textTweens' = IF setup.threw THEN textTweens ELSE text.tweens
                /\ isInitialized' = ~threw
                /\ readyEvents' = IF threw THEN readyEvents ELSE readyEvents + 1
                /\ lastInit' = IF threw THEN "threw" ELSE "ready"

initializeMorphing ==
    /\ build = "morphing"
    /\ initCalls < MaxInitCalls
    /\ \/ AlreadyInitialized
       \/ \E gl \in BOOLEAN, gsapLoaded \in BOOLEAN :
              initializeMorphingBody(gl, gsapLoaded)
    /\ UNCHANGED <<page, build, cardStyle, contentStyle, lastCall, sweep>>

\* part_002. choreographerOk: the DetailedScrollChoreographer constructor and
\* its initialize() return without throwing. The field is assigned once the
\* constructor has returned, so a throwing constructor leaves it as it was and a
\* throwing initialize() leaves it set.
initializeDetailedBody(gl, constructorOk, choreographerOk) ==
    LET visualizer == IF gl THEN "withGL" ELSE "noGL"
        threw == ~constructorOk \/ ~choreographerOk
    IN  /\ ~skipInitialize
        /\ initCalls' = initCalls + 1
        /\ quantumVisualizer' = visualizer
        /\ params' = FreshParams
        /\ UNCHANGED <<morphingSystem, sectionConfigs, scrollTriggers, textTweens>>
        /\ IF contextMissing(visualizer)
           THEN /\ lastInit' = "noWebGL"
                /\ UNCHANGED <<isInitialized, detailedScrollChoreographer,
                               renderLoops, readyEvents>>
           ELSE /\ renderLoops' = renderLoops + 1
                /\ detailedScrollChoreographer' =
                       IF constructorOk THEN "created" ELSE detailedScrollChoreographer
                /\ isInitialized' = ~threw
                /\ readyEvents' = IF threw THEN readyEvents ELSE readyEvents + 1
                /\ lastInit' = IF threw THEN "threw" ELSE "ready"

initializeDetailed ==
    /\ build = "detailed"
    /\ initCalls < MaxInitCalls
    /\ \/ AlreadyInitialized
       \/ \E gl \in BOOLEAN, constructorOk \in BOOLEAN, choreographerOk \in BOOLEAN :
              initializeDetailedBody(gl, constructorOk, choreographerOk)
    /\ UNCHANGED <<page, build, cardStyle, contentStyle, lastCall, sweep>>

Next == initializeMorphing \/ initializeDetailed

Spec == Init /\ [][Next]_vars

----------------------------------------------------------------------------
\* The scroll callbacks of the ScrollTriggers, once the morphing build is ready.

\* The accumulated rot4dXW is capped to keep the state space finite.
RotCap == RMul(Whole(MaxRotSteps), Rat(2, 1000))

\* onEnter of trigger k
ScrollEnter ==
    /\ isInitialized
    /\ \E k \in 1..Len(scrollTriggers) :
          LET toConfig == ConfigOf(sectionConfigs, scrollTriggers[k].to)
              next == onTransitionStart(toConfig, Pose)
          IN  /\ cardStyle' = next.cardStyle
              /\ contentStyle' = next.contentStyle
              /\ params' = next.params
              /\ lastCall' = [NoCall EXCEPT !.kind = "start", !.trigger = k]
              /\ sweep' = "forward"
    /\ UNCHANGED <<page, build, appVars>>

\* Math.random() is called once per from-card, and only in phase 1.
RandomDraws(k, progress) ==
    IF phasesOn[progress].disassemble.ran
    THEN [{c[2] : c \in ConfigOf(sectionConfigs, scrollTriggers[k].from).cards}
             -> RandomValues]
    ELSE {<<>>}

\* onUpdate of trigger k with self.progress = progress
ScrollUpdate ==
    /\ isInitialized
    /\ \E k \in 1..Len(scrollTriggers), progress \in ProgressGrid :
          \E randoms \in RandomDraws(k, progress) :
              LET fromConfig == ConfigOf(sectionConfigs, scrollTriggers[k].from)
                  toConfig == ConfigOf(sectionConfigs, scrollTriggers[k].to)
                  next == onTransitionProgress(fromConfig, toConfig, Pose,
                                               progress, randoms)
                  phase == phasesOn[progress]
              IN  /\ RLe(next.params.rot4dXW, RotCap)
                  /\ cardStyle' = next.cardStyle
                  /\ contentStyle' = next.contentStyle
                  /\ params' = next.params
                  /\ lastCall' = [kind |-> "progress", trigger |-> k,
                                  progress |-> progress,
                                  disassemble |-> phase.disassemble,
                                  morph |-> phase.morph,
                                  assemble |-> phase.assemble]
                  /\ sweep' = IF /\ sweep = "forward"
                                 /\ lastCall.trigger = k
                                 /\ \/ lastCall.kind = "start"
                                    \/ RLe(lastCall.progress, progress)
                              THEN "forward"
                              ELSE IF sweep = "unstarted" THEN "unstarted"
                              ELSE "broken"
    /\ UNCHANGED <<page, build, appVars>>

\* The state a successful first initialize() of the morphing build leaves.
Initialized(pg) ==
    LET registered == registerSections(pg)
    IN  /\ page = pg
        /\ build = "morphing"
        /\ isInitialized = TRUE
        /\ quantumVisualizer = "withGL"
        /\ morphingSystem = "created"
        /\ detailedScrollChoreographer = "null"
        /\ sectionConfigs = registered
        /\ scrollTriggers = setupMorphingTransitions(registered, <<>>, TRUE).triggers
        /\ textTweens = setupTextScrollOff(pg, 0, TRUE).tweens
        /\ renderLoops = 1
        /\ readyEvents = 1
        /\ initCalls = 1
        /\ lastInit = "ready"
        /\ params = FreshPose(pg).params
        /\ cardStyle = FreshPose(pg).cardStyle
        /\ contentStyle = FreshPose(pg).contentStyle
        /\ lastCall = NoCall
        /\ sweep = "unstarted"

\* Pages with two sections that follow each other in the registration order,
\* so one transition, each section with MaxCards cards.
ScrollPages ==
    {pg \in Pages : /\ \E k \in 1..(Len(SectionIds) - 1) :
                          pg.sections = {SectionIds[k], SectionIds[k + 1]}
                    /\ pg.textElements = 0
                    /\ \A s \in pg.sections : pg.cards[s] = MaxCards}

ScrollInit == \E pg \in ScrollPages : Initialized(pg)

ScrollNext == ScrollEnter \/ ScrollUpdate

ScrollSpec == ScrollInit /\ [][ScrollNext]_vars

----------------------------------------------------------------------------
\* Properties.

\* The configurations and presets of the transition the last callback was for.
LastFrom == ConfigOf(sectionConfigs, scrollTriggers[lastCall.trigger].from)
LastTo == ConfigOf(sectionConfigs, scrollTriggers[lastCall.trigger].to)

InUnit(x) == RLe(Zero, x) /\ RLe(x, One)
Dist(a, b) == IF RLt(a, b) THEN RSub(b, a) ELSE RSub(a, b)

InterpolatedParams == {"geometry", "hue", "intensity", "chaos", "gridDensity"}

\* C1: after onTransitionProgress(from, to, p), disassembleCards ran iff p < 0.4,
\* with p / 0.4; morphVisualizer ran iff 0.3 <= p <= 0.7, with (p - 0.3) / 0.4;
\* assembleCards ran iff p >= 0.6, with (p - 0.6) / 0.4; at least one of them
\* ran, and every argument passed lies in [0, 1].
C1_PhaseWindows ==
    lastCall.kind = "progress" =>
        LET p == lastCall.progress
        IN  /\ lastCall.disassemble.ran <=> RLt(p, Rat(4, 10))
            /\ lastCall.disassemble.ran =>
                   lastCall.disassemble.arg = RDiv(p, Rat(4, 10))
            /\ lastCall.morph.ran <=> (RLe(Rat(3, 10), p) /\ RLe(p, Rat(7, 10)))
            /\ lastCall.morph.ran =>
                   lastCall.morph.arg = RDiv(RSub(p, Rat(3, 10)), Rat(4, 10))
            /\ lastCall.assemble.ran <=> RLe(Rat(6, 10), p)
            /\ lastCall.assemble.ran =>
                   lastCall.assemble.arg = RDiv(RSub(p, Rat(6, 10)), Rat(4, 10))
            /\ lastCall.disassemble.ran \/ lastCall.morph.ran \/ lastCall.assemble.ran
            /\ \A ph \in {lastCall.disassemble, lastCall.morph, lastCall.assemble} :
                   ph.ran => InUnit(ph.arg)

\* An update at 0.7, where the morph phase ends and the assemble phase has begun.
C1_Witness ==
    /\ lastCall.kind = "progress"
    /\ lastCall.progress = Rat(7, 10)
    /\ lastCall.morph = Ran(One)
    /\ lastCall.assemble = Ran(Rat(1, 4))
    /\ ~lastCall.disassemble.ran

\* C2: after morphVisualizer(from preset, to preset, x), each of geometry, hue,
\* intensity, chaos and gridDensity equals the from value at x = 0 and the to
\* value at x = 1, lies between the two, and is at least as close to the to
\* value as it is at any smaller morph progress.
C2_MorphInterpolates ==
    (lastCall.kind = "progress" /\ lastCall.morph.ran) =>
        LET from == LastFrom.visualizerState
            to == LastTo.visualizerState
            x == lastCall.morph.arg
        IN  \A f \in InterpolatedParams :
                /\ x = Zero => params[f] = from[f]
                /\ x = One => params[f] = to[f]
                /\ RBetween(params[f], from[f], to[f])
                /\ \A y \in MorphArgs :
                       RLe(y, x) =>
                           RLe(Dist(params[f], to[f]),
                               Dist(morphTargetsOn[LastFrom.id, LastTo.id, y][f], to[f]))

\* Half-way through the hero -> capabilities morph: hue 230, between 180 and 280.
C2_Witness ==
    /\ lastCall.kind = "progress"
    /\ lastCall.morph = Ran(Half)
    /\ LastFrom.id = "hero"
    /\ LastTo.id = "capabilities"
    /\ params.hue = Whole(230)
    /\ params.geometry = Rat(9, 2)

\* The pose one update at the given progress leaves on the untouched page, with
\* Math.random() returning 0.
SingleUpdatePose(progress) ==
    onTransitionProgress(LastFrom, LastTo, FreshPose(page), progress,
                         [i \in CardIndexes |-> Zero])

\* C3 as claimed: the pose is a function of the current progress alone, so after
\* any history of onTransitionProgress calls that ends with progress p it is the
\* pose the one-call history p leaves.
C3_PoseFunctionOfProgress ==
    (sweep = "unstarted" /\ lastCall.kind = "progress") =>
        Pose = SingleUpdatePose(lastCall.progress)

WithoutRotation(style) == [style EXCEPT !.rotation = Zero]

\* C3, amended: after onTransitionProgress(from, to, p), whatever came before:
\* if p < 0.4 every from-card's offset, scale, opacity and blur are those of p;
\* if 0.3 <= p <= 0.7 geometry, hue, intensity, chaos, gridDensity and
\* morphFactor are those of p; if p >= 0.6 every to-card's style is that of p,
\* and so is its content's once easedProgress > 0.5.
C3_ActivePhasesDetermined ==
    lastCall.kind = "progress" =>
        LET p == lastCall.progress
            from == LastFrom
            to == LastTo
        IN  /\ RLt(p, Rat(4, 10)) =>
                  \A c \in from.cards :
                      WithoutRotation(cardStyle[c]) =
                          WithoutRotation(disassembleStyle(c[2], from.cardCount,
                                                           RDiv(p, Rat(4, 10)), Zero))
            /\ (RLe(Rat(3, 10), p) /\ RLe(p, Rat(7, 10))) =>
                  LET target == morphTargets(from.visualizerState, to.visualizerState,
                                             RDiv(RSub(p, Rat(3, 10)), Rat(4, 10)))
                  IN  \A f \in InterpolatedParams \cup {"morphFactor"} :
                          params[f] = target[f]
            /\ RLe(Rat(6, 10), p) =>
                  \A c \in to.cards :
                      LET x == RDiv(RSub(p, Rat(6, 10)), Rat(4, 10))
                      IN  /\ cardStyle[c] = assembleStyle(c[2], x)
                          /\ contentWritten(c[2], x) =>
                                 contentStyle[c] = assembleContent(c[2], x)

\* An update at 0.3 runs phases 1 and 2 only, after a history that has already
\* assembled the to-cards and turned the visualizer.
C3_Witness ==
    /\ lastCall.kind = "progress"
    /\ lastCall.progress = Rat(3, 10)
    /\ params.rot4dXW # Zero
    /\ \E c \in LastTo.cards : cardStyle[c] = assembleStyle(c[2], One)
    /\ \E c \in LastFrom.cards : cardStyle[c].opacity = Rat(1, 4)

\* sin(ease * PI) = 0, for ease in [0, 1]
SinPiIsZero(m) == m.sinPiOf \in {Zero, One}

\* C7: after onTransitionStart and non-decreasing onTransitionProgress updates
\* the last of which is 1, geometry, hue, intensity, chaos and gridDensity equal
\* the to-section's preset and morphFactor is 0.
C7_SweepEndsAtToPreset ==
    (sweep = "forward" /\ lastCall.kind = "progress" /\ lastCall.progress = One) =>
        /\ \A f \in InterpolatedParams : params[f] = LastTo.visualizerState[f]
        /\ SinPiIsZero(params.morphFactor)

\* The sections registerSections finds in the page, in call order.
Registered(pg) == SelectSeq(SectionIds, LAMBDA s : s \in pg.sections)

\* C4: once initialize() has set isInitialized, a further call only logs: no
\* visualizer, render loop, morphing or choreography system, trigger, tween or
\* ready event is added; the ready event is dispatched at most once, and only
\* with isInitialized set.
C4_InitializeIdempotent ==
    [][/\ (isInitialized /\ initCalls' # initCalls) =>
              /\ lastInit' = "alreadyInitialized"
              /\ UNCHANGED <<isInitialized, quantumVisualizer, renderLoops,
                             morphingSystem, detailedScrollChoreographer,
                             sectionConfigs, scrollTriggers, textTweens, readyEvents>>
       /\ readyEvents' # readyEvents =>
              (readyEvents = 0 /\ readyEvents' = 1 /\ isInitialized')]_vars

\* A call that found the application initialized.
C4_Witness ==
    /\ lastInit = "alreadyInitialized"
    /\ isInitialized
    /\ readyEvents = 1
    /\ renderLoops = 1

C6_TransitionsLinkNeighbours ==
    LET reg == Registered(page)
    IN  /\ (build = "morphing" /\ morphingSystem = "created") =>
               /\ Len(sectionConfigs) = Len(reg)
               /\ \A k \in 1..Len(reg) : sectionConfigs[k].id = reg[k]
        /\ (build = "morphing" /\ isInitialized) =>
               /\ Len(scrollTriggers) = IF Len(reg) < 2 THEN 0 ELSE Len(reg) - 1
               /\ \A k \in 1..Len(scrollTriggers) :
                      scrollTriggers[k] = [from |-> reg[k], to |-> reg[k + 1],
                                           trigger |-> reg[k + 1]]

\* A page without the capabilities section: hero is linked to research.
C6_Witness ==
    /\ build = "morphing"
    /\ isInitialized
    /\ page.sections = {"hero", "research", "contact"}
    /\ Len(sectionConfigs) = 3
    /\ scrollTriggers = <<[from |-> "hero", to |-> "research", trigger |-> "research"],
                          [from |-> "research", to |-> "contact", trigger |-> "contact"]>>

=============================================================================
